---------------------------- MODULE Spec2Model ----------------------------
(***************************************************************************)
(* Model of the OpenSBI add-ons of this repository:                        *)
(*   - build.sh: make, build identifier, image-header stamping, exit check *)
(*   - tool/patch_image_header.py (the header stamper, called by build.sh; *)
(*     modelled from its specification)                                    *)
(*   - tool/key/generate_key.sh: key pair and raw public key extraction    *)
(*   - platform/generic/andes/ax65.c: the AX65 final_init override         *)
(*   - after_opensbi.c: the S-mode banner / U-mode switch stub             *)
(* Each program has its own specification (SpecBuild, SpecKey, SpecAx65,   *)
(* SpecStub) over its own variables; the other programs' variables idle.   *)
(***************************************************************************)
EXTENDS Integers, Sequences, FiniteSets, TLC

VARIABLES
    \* ---- build.sh and the stamper it runs
    pc,          \* position in build.sh
    status,      \* $? of the last command
    GIT_SHA,     \* the shell variable, a sequence of character codes
    stdout,      \* what build.sh echoed, in order
    exitCode,    \* exit code of build.sh, -1 while it runs
    fs,          \* the file system: path -> bytes, for the paths that exist
    outWritable, \* whether the output path can be created
    steps,       \* the pipeline steps started so far, in order
    stamp,       \* the stamper process: its locals
    fsAtStamp,   \* the file system when the stamper was invoked
    \* ---- generate_key.sh
    kpc, kfs,
    \* ---- ax65.c
    final_init, mcache_ctl, axlog,
    \* ---- after_opensbi.c
    spc, mode, sstatus, sepc, regs, trace

bvars == <<pc, status, GIT_SHA, stdout, exitCode, fs, outWritable, steps, stamp, fsAtStamp>>
kvars == <<kpc, kfs>>
avars == <<final_init, mcache_ctl, axlog>>
svars == <<spc, mode, sstatus, sepc, regs, trace>>
vars == <<bvars, kvars, avars, svars>>

\* each program leaves the other programs' variables alone
BuildFrame == UNCHANGED <<kvars, avars, svars>>
KeyFrame == UNCHANGED <<bvars, avars, svars>>
AxFrame == UNCHANGED <<bvars, kvars, svars>>
StubFrame == UNCHANGED <<bvars, kvars, avars>>

---------------------------------------------------------------------------
(* Bounds of the model *)

\* longest firmware binary make produces
MaxBinLen == 2
\* number of distinct byte values a firmware binary is drawn from
BinByteKinds == 2
\* low bits of a CSR (MCACHE_CTL, sstatus) the model keeps
CsrBits == 10

---------------------------------------------------------------------------
(* Bytes, files *)

Min(a, b) == IF a < b THEN a ELSE b

RECURSIVE Pow2(_)
Pow2(n) == IF n = 0 THEN 1 ELSE 2 * Pow2(n - 1)

\* all sequences over S of length lo..hi
SeqsBetween(S, lo, hi) == UNION {[1 .. n -> S] : n \in lo .. hi}

\* file system primitives
Exists(f, p) == p \in DOMAIN f
Put(f, p, data) == [q \in (DOMAIN f) \cup {p} |-> IF q = p THEN data ELSE f[q]]
Remove(f, p) == [q \in (DOMAIN f) \ {p} |-> f[q]]

BinPath == "build/platform/generic/firmware/fw_jump.bin"
ImgPath == "build/platform/generic/firmware/fw_jump.img"
KeyPath == "tool/key/ec-secp256k1-private.pem"
PubRawPath == "tool/key/ec-secp256k1-public-raw.bin"
VenvPath == "venv"

---------------------------------------------------------------------------
(* The signature scheme of the stamper.  ECDSA is computed as ECDSA        *)
(* computes it (r from the nonce point, s = k^-1 (h + r d), verification   *)
(* by u1 G + u2 Q), over a small cyclic group of prime order that stands   *)
(* for secp256k1, so that signing and verifying are distinct computations. *)

GroupOrder == 251
Generator == 7
CoordWidth == 32

Scalars == 1 .. (GroupOrder - 1)

Inverse(x) == CHOOSE y \in Scalars : (x * y) % GroupOrder = 1

\* point multiplication; a point is identified with its x coordinate
PointMul(k, P) == (k * P) % GroupOrder
PointAdd(P, Q) == (P + Q) % GroupOrder
\* the y coordinate that goes with x on the stand-in curve y = x^3 + 7
CurveY(x) == (x * x * x + 7) % GroupOrder

PublicPoint(d) == PointMul(d, Generator)

\* big-endian and little-endian encodings of v < 2^31 on w bytes
ByteAt(v, j) == IF j >= 4 THEN 0 ELSE (v \div Pow2(8 * j)) % 256
BigEndian(v, w) == [i \in 1 .. w |-> ByteAt(v, w - i)]
LittleEndian(v, w) == [i \in 1 .. w |-> ByteAt(v, i - 1)]
RECURSIVE FromBigEndian(_)
FromBigEndian(bs) ==
    IF bs = <<>> THEN 0
    ELSE (256 * FromBigEndian(SubSeq(bs, 1, Len(bs) - 1)) + bs[Len(bs)]) % Pow2(22)

\* 31^n in the group's scalar field
RECURSIVE PowMod31(_)
PowMod31(n) ==
    IF n = 0 THEN 1
    ELSE LET h == PowMod31(n \div 2)
         IN (h * h * (IF n % 2 = 1 THEN 31 ELSE 1)) % GroupOrder

\* sum of (msg[i] + 1) * 31^(hi - i) for i in lo..hi
RECURSIVE PolySum(_, _, _)
PolySum(msg, lo, hi) ==
    IF lo > hi THEN 0
    ELSE IF lo = hi THEN (msg[lo] + 1) % GroupOrder
    ELSE LET mid == (lo + hi) \div 2
         IN (PolySum(msg, lo, mid) * PowMod31(hi - mid) + PolySum(msg, mid + 1, hi))
               % GroupOrder

\* the digest that is signed: a polynomial hash of the message
Digest(msg) == (PowMod31(Len(msg)) + PolySum(msg, 1, Len(msg))) % GroupOrder

SigR(k) == PointMul(k, Generator) % GroupOrder
SigS(d, msg, k) == (Inverse(k) * (Digest(msg) + SigR(k) * d)) % GroupOrder
\* a nonce is acceptable when neither half of the signature is zero
GoodNonce(d, msg, k) == SigR(k) # 0 /\ SigS(d, msg, k) # 0

Sign(d, msg, k) == BigEndian(SigR(k), CoordWidth) \o BigEndian(SigS(d, msg, k), CoordWidth)

\* the raw public key: X || Y, 32 bytes each, big-endian
RawPublicKey(d) ==
    BigEndian(PublicPoint(d), CoordWidth) \o BigEndian(CurveY(PublicPoint(d)), CoordWidth)

Verify(rawpub, msg, sig) ==
    /\ Len(sig) = 2 * CoordWidth
    /\ Len(rawpub) = 2 * CoordWidth
    /\ LET r == FromBigEndian(SubSeq(sig, 1, CoordWidth))
           s == FromBigEndian(SubSeq(sig, CoordWidth + 1, 2 * CoordWidth))
           Q == FromBigEndian(SubSeq(rawpub, 1, CoordWidth))
       IN /\ r \in Scalars
          /\ s \in Scalars
          /\ LET w == Inverse(s)
                 u1 == (Digest(msg) * w) % GroupOrder
                 u2 == (r * w) % GroupOrder
             IN PointAdd(PointMul(u1, Generator), PointMul(u2, Q)) % GroupOrder = r

\* the private key file: a PEM armour byte followed by the scalar
PemTag == 45
PemEncode(d) == <<PemTag, d>>
ParsableKey(data) == Len(data) = 2 /\ data[1] = PemTag /\ data[2] \in Scalars
ParseKey(data) == data[2]

---------------------------------------------------------------------------
(* The header stamper, tool/patch_image_header.py: spec.md 3, 4.1, 6, 7 *)

EntryWidth == 8
IdWidth == 8
SigWidth == 2 * CoordWidth
\* H, the fixed header length
HeaderLen == EntryWidth + IdWidth + SigWidth

\* nonces the signer may draw
Nonces == {2, 5}

HexDigits == <<"0", "1", "2", "3", "4", "5", "6", "7", "8", "9",
               "a", "b", "c", "d", "e", "f">>
IsHexDigit(c) == \E i \in 1 .. 16 : HexDigits[i] = c
HexValue(c) == (CHOOSE i \in 1 .. 16 : HexDigits[i] = c) - 1

\* value of a digit string in the given base, -1 when a digit is not of the base
RECURSIVE ParseDigits(_, _)
ParseDigits(cs, base) ==
    IF cs = <<>> THEN 0
    ELSE LET c == cs[Len(cs)]
             hi == ParseDigits(SubSeq(cs, 1, Len(cs) - 1), base)
         IN IF hi < 0 \/ ~IsHexDigit(c) THEN -1
            ELSE IF HexValue(c) >= base THEN -1
            ELSE hi * base + HexValue(c)

\* --entrypoint <hex-or-decimal address>; -1 is InvalidArgument
ParseEntrypoint(cs) ==
    IF Len(cs) > 2 /\ cs[1] = "0" /\ cs[2] = "x"
    THEN ParseDigits(SubSeq(cs, 3, Len(cs)), 16)
    ELSE IF cs = <<>> THEN -1 ELSE ParseDigits(cs, 10)

\* the build identifier on its fixed field width: truncated or zero-padded
PadTruncate(s, w) == [i \in 1 .. w |-> IF i <= Len(s) THEN s[i] ELSE 0]

\* the header fields the signature covers
HeaderFields(entry, sha) == LittleEndian(entry, EntryWidth) \o PadTruncate(sha, IdWidth)

\* what is signed: the other header fields followed by the payload
SignedMessage(entry, sha, bin) == HeaderFields(entry, sha) \o bin

MakeHeader(entry, sha, bin, d, k) ==
    HeaderFields(entry, sha) \o Sign(d, SignedMessage(entry, sha, bin), k)

\* variant: the image is written straight onto the output path
TmpPath_InPlace(out) == out

\* the temporary the image is written to before it is moved into place
TmpPath(out) == out \o ".tmp"

StampIdle ==
    [pc |-> "idle", input |-> "", output |-> "", entrypoint |-> <<>>, git_sha |-> <<>>,
     key |-> "", bin |-> <<>>, priv |-> 0, header |-> <<>>, err |-> ""]

---------------------------------------------------------------------------
(* tool/key/generate_key.sh: the files and the conversions *)

PrivPem == "ec-secp256k1-private.pem"
PubDer == "ec-secp256k1-public.der"
PubRaw == "ec-secp256k1-public-raw.bin"

\* DER, definite short-form lengths
DerTLV(tag, content) == <<tag, Len(content)>> \o content
\* OBJECT IDENTIFIER 1.2.840.10045.2.1 (id-ecPublicKey)
OidEcPublicKey == DerTLV(6, <<42, 134, 72, 206, 61, 2, 1>>)
\* OBJECT IDENTIFIER 1.3.132.0.10 (secp256k1)
OidSecp256k1 == DerTLV(6, <<43, 129, 4, 0, 10>>)
\* the uncompressed point: 04 || X || Y
UncompressedPoint(d) == <<4>> \o RawPublicKey(d)
\* SubjectPublicKeyInfo ::= SEQUENCE { AlgorithmIdentifier, BIT STRING }
DerPublicKey(d) ==
    DerTLV(48, DerTLV(48, OidEcPublicKey \o OidSecp256k1)
               \o DerTLV(3, <<0>> \o UncompressedPoint(d)))

\* dd if= of= bs= skip= count= on the bytes of the input file
Dd(data, bs, skip, count) ==
    SubSeq(data, skip * bs + 1, Min(Len(data), (skip + count) * bs))

\* variants: dd with skip=23, dd with count=32
RawFromDer_Skip23(der) == Dd(der, 1, 23, 64)
RawFromDer_Count32(der) == Dd(der, 1, 24, 32)

DdSkip == 24
DdCount == 64
\* line 3: dd ... bs=1 skip=24 count=64
RawFromDer(der) == Dd(der, 1, DdSkip, DdCount)

---------------------------------------------------------------------------
(* build.sh *)

\* character codes of the strings the script handles
Unknown == <<117, 110, 107, 110, 111, 119, 110>>
\* abbreviated revisions git may print: 7 characters, or more when 7 are ambiguous
ShortShas == {<<97, 98, 99, 49, 50, 51, 52>>,
              <<48, 102, 51, 101, 57, 100, 55, 99, 50>>}

\* the firmware binaries make may produce
BinBytes == 0 .. (BinByteKinds - 1)
Binaries == SeqsBetween(BinBytes, 1, MaxBinLen)

Echo(text, arg) == [text |-> text, arg |-> arg]
Echoed(text) == \E i \in 1 .. Len(stdout) : stdout[i].text = text

Step(name, rc, out) == [name |-> name, rc |-> rc, out |-> out]

\* variant: the test of line 7 inverted
MakeFailed_Inverted(st) == st = 0

\* line 7: [ $? -ne 0 ]
MakeFailed(st) == st # 0

\* variant: line 13 without || echo "unknown"
GitCapture_NoFallback(out, rc) == out

\* line 13: $(git rev-parse --short HEAD 2>/dev/null || echo "unknown"):
\* the captured output is git's, followed by echo's when git failed
GitCapture(out, rc) == IF rc = 0 THEN out ELSE out \o Unknown

\* variant: the test of line 37 inverted
StampOk_Inverted(st) == st # 0

\* line 37: [ $? -eq 0 ]
StampOk(st) == st = 0

\* variants: input and output paths exchanged; the output written over the input
StampArgs_Swapped ==
    [input |-> ImgPath,
     output |-> BinPath,
     entrypoint |-> <<"0", "x", "4", "0", "0", "0", "0", "0", "0", "0">>,
     git_sha |-> GIT_SHA,
     key |-> KeyPath]
StampArgs_InPlace ==
    [input |-> BinPath,
     output |-> BinPath,
     entrypoint |-> <<"0", "x", "4", "0", "0", "0", "0", "0", "0", "0">>,
     git_sha |-> GIT_SHA,
     key |-> KeyPath]

\* lines 30-35: the stamper's command line
StampArgs ==
    [input |-> BinPath,
     output |-> ImgPath,
     entrypoint |-> <<"0", "x", "4", "0", "0", "0", "0", "0", "0", "0">>,
     git_sha |-> GIT_SHA,
     key |-> KeyPath]

\* an image left by an earlier build
StaleImage == MakeHeader(ParseEntrypoint(StampArgs.entrypoint), Unknown, <<0>>, 3, 2) \o <<0>>

\* tool/key as generate_key.sh left it for the private scalar d
KeyDir(d) == [pem |-> PemEncode(d), raw |-> RawFromDer(DerPublicKey(d))]
\* ... and with the private key file damaged afterwards
DamagedKeyDir == [pem |-> <<0>>, raw |-> KeyDir(3).raw]
KeyDirs == {KeyDir(3), KeyDir(11), DamagedKeyDir}

InitBuild ==
    /\ pc = "make"
    /\ status = 0
    /\ GIT_SHA = <<>>
    /\ stdout = <<>>
    /\ exitCode = -1
    /\ \E kd \in KeyDirs, hasKey \in BOOLEAN, hasVenv \in BOOLEAN, hasStale \in BOOLEAN :
          fs = [p \in ((IF hasKey THEN {KeyPath, PubRawPath} ELSE {})
                         \cup (IF hasVenv THEN {VenvPath} ELSE {})
                         \cup (IF hasStale THEN {ImgPath} ELSE {}))
                  |-> IF p = KeyPath THEN kd.pem
                      ELSE IF p = PubRawPath THEN kd.raw
                      ELSE IF p = ImgPath THEN StaleImage ELSE <<>>]
    /\ outWritable \in BOOLEAN
    /\ steps = <<>>
    /\ stamp = StampIdle
    /\ fsAtStamp = fs

\* line 4: make; it fails, or succeeds and leaves fw_jump.bin (or, with FW_JUMP
\* configured off, no fw_jump.bin)
Make ==
    /\ pc = "make"
    /\ \/ \E rc \in {1, 2} :
             /\ status' = rc
             /\ fs' = fs
       \/ \E bin \in Binaries :
             /\ status' = 0
             /\ fs' = Put(fs, BinPath, bin)
       \/ /\ status' = 0
          /\ fs' = fs
    /\ steps' = Append(steps, Step("build", status', <<>>))
    /\ pc' = "check_make"
    /\ UNCHANGED <<GIT_SHA, stdout, exitCode, outWritable, stamp, fsAtStamp>>
    /\ BuildFrame

\* lines 7-10
CheckMake ==
    /\ pc = "check_make"
    /\ IF MakeFailed(status)
       THEN /\ stdout' = Append(stdout, Echo("Build failed!", <<>>))
            /\ exitCode' = 1
            /\ pc' = "exited"
       ELSE /\ pc' = "git"
            /\ UNCHANGED <<stdout, exitCode>>
    /\ UNCHANGED <<status, GIT_SHA, fs, outWritable, steps, stamp, fsAtStamp>>
    /\ BuildFrame

\* line 13: git prints the abbreviated revision and exits 0, or (--short verifies:
\* no revision, no repository, no git) prints nothing on stdout and exits non-zero
GitSha ==
    /\ pc = "git"
    /\ \E rc \in {0, 127, 128} :
       \E out \in (IF rc = 0 THEN ShortShas ELSE {<<>>}) :
          /\ GIT_SHA' = GitCapture(out, rc)
          /\ steps' = Append(steps, Step("gitsha", rc, out))
    /\ status' = 0
    /\ pc' = "echo"
    /\ UNCHANGED <<stdout, exitCode, fs, outWritable, stamp, fsAtStamp>>
    /\ BuildFrame

\* lines 14-17
EchoSha ==
    /\ pc = "echo"
    /\ stdout' = stdout \o <<Echo("Git SHA: ", GIT_SHA),
                             Echo("Adding image header to fw_jump.bin...", <<>>)>>
    /\ pc' = "venv"
    /\ UNCHANGED <<status, GIT_SHA, exitCode, fs, outWritable, steps, stamp, fsAtStamp>>
    /\ BuildFrame

\* lines 20-27
Venv ==
    /\ pc = "venv"
    /\ IF ~Exists(fs, VenvPath)
       THEN /\ stdout' = Append(stdout, Echo("Creating virtual environment...", <<>>))
            /\ fs' = Put(fs, VenvPath, <<>>)
       ELSE UNCHANGED <<stdout, fs>>
    /\ pc' = "stamp"
    /\ UNCHANGED <<status, GIT_SHA, exitCode, outWritable, steps, stamp, fsAtStamp>>
    /\ BuildFrame

\* lines 30-35: the stamper starts
StampInvoke ==
    /\ pc = "stamp"
    /\ stamp.pc = "idle"
    /\ stamp' = [StampIdle EXCEPT !.pc = "read",
                                  !.input = StampArgs.input,
                                  !.output = StampArgs.output,
                                  !.entrypoint = StampArgs.entrypoint,
                                  !.git_sha = StampArgs.git_sha,
                                  !.key = StampArgs.key]
    /\ fsAtStamp' = fs
    /\ steps' = Append(steps, Step("stamp", -1, <<>>))
    /\ UNCHANGED <<pc, status, GIT_SHA, stdout, exitCode, fs, outWritable>>
    /\ BuildFrame

---------------------------------------------------------------------------
(* The stamper's run (spec.md 4.1, 5, 7): read the binary, load the key,   *)
(* build and sign the header, write header || binary to a temporary and    *)
(* move it onto the output path.  Its exit status becomes build.sh's $?.   *)

StampVars == <<GIT_SHA, stdout, exitCode, outWritable, steps, fsAtStamp>>

\* the stamper ends with an error: message, non-zero exit
StampFail(err, rc) ==
    /\ stamp' = [stamp EXCEPT !.pc = "done", !.err = err]
    /\ status' = rc
    /\ pc' = "check_stamp"

StampRead ==
    /\ pc = "stamp" /\ stamp.pc = "read"
    /\ IF ParseEntrypoint(stamp.entrypoint) < 0
       THEN StampFail("InvalidArgument", 2)
       ELSE IF ~Exists(fs, stamp.input)
       THEN StampFail("InputNotFound", 1)
       ELSE /\ stamp' = [stamp EXCEPT !.pc = "key", !.bin = fs[stamp.input]]
            /\ UNCHANGED <<pc, status>>
    /\ UNCHANGED <<fs, StampVars>>
    /\ BuildFrame

StampLoadKey ==
    /\ pc = "stamp" /\ stamp.pc = "key"
    /\ IF Exists(fs, stamp.key) /\ ParsableKey(fs[stamp.key])
       THEN /\ stamp' = [stamp EXCEPT !.pc = "sign", !.priv = ParseKey(fs[stamp.key])]
            /\ UNCHANGED <<pc, status>>
       ELSE StampFail("KeyLoadError", 1)
    /\ UNCHANGED <<fs, StampVars>>
    /\ BuildFrame

StampSign ==
    /\ pc = "stamp" /\ stamp.pc = "sign"
    /\ LET entry == ParseEntrypoint(stamp.entrypoint)
       IN \E k \in Nonces :
             /\ GoodNonce(stamp.priv, SignedMessage(entry, stamp.git_sha, stamp.bin), k)
             /\ stamp' = [stamp EXCEPT !.pc = "open",
                             !.header = MakeHeader(entry, stamp.git_sha, stamp.bin,
                                                   stamp.priv, k)]
    /\ UNCHANGED <<pc, status, fs, StampVars>>
    /\ BuildFrame

StampOpen ==
    /\ pc = "stamp" /\ stamp.pc = "open"
    /\ IF outWritable
       THEN /\ fs' = Put(fs, TmpPath(stamp.output), <<>>)
            /\ stamp' = [stamp EXCEPT !.pc = "write_header"]
            /\ UNCHANGED <<pc, status>>
       ELSE /\ StampFail("IOError", 1)
            /\ fs' = fs
    /\ UNCHANGED StampVars
    /\ BuildFrame

StampWriteHeader ==
    /\ pc = "stamp" /\ stamp.pc = "write_header"
    /\ fs' = Put(fs, TmpPath(stamp.output), fs[TmpPath(stamp.output)] \o stamp.header)
    /\ stamp' = [stamp EXCEPT !.pc = "write_payload"]
    /\ UNCHANGED <<pc, status, StampVars>>
    /\ BuildFrame

StampWritePayload ==
    /\ pc = "stamp" /\ stamp.pc = "write_payload"
    /\ fs' = Put(fs, TmpPath(stamp.output), fs[TmpPath(stamp.output)] \o stamp.bin)
    /\ stamp' = [stamp EXCEPT !.pc = "rename"]
    /\ UNCHANGED <<pc, status, StampVars>>
    /\ BuildFrame

\* the atomic move onto the output path, and exit 0
StampRename ==
    /\ pc = "stamp" /\ stamp.pc = "rename"
    /\ fs' = Put(Remove(fs, TmpPath(stamp.output)), stamp.output,
                 fs[TmpPath(stamp.output)])
    /\ stamp' = [stamp EXCEPT !.pc = "done"]
    /\ status' = 0
    /\ pc' = "check_stamp"
    /\ UNCHANGED StampVars
    /\ BuildFrame

\* the stamper is killed at any point of its run; what it wrote so far stays
StampInterrupt ==
    /\ pc = "stamp" /\ stamp.pc \notin {"idle", "done"}
    /\ StampFail("Interrupted", 130)
    /\ UNCHANGED <<fs, StampVars>>
    /\ BuildFrame

\* lines 37-42
CheckStamp ==
    /\ pc = "check_stamp"
    /\ IF StampOk(status)
       THEN /\ stdout' = Append(stdout, Echo("Build completed successfully!", <<>>))
            /\ exitCode' = 0
       ELSE /\ stdout' = Append(stdout, Echo("Failed to generate fw_jump.img", <<>>))
            /\ exitCode' = 1
    /\ pc' = "exited"
    /\ UNCHANGED <<status, GIT_SHA, fs, outWritable, steps, stamp, fsAtStamp>>
    /\ BuildFrame

NextBuild ==
    \/ Make \/ CheckMake \/ GitSha \/ EchoSha \/ Venv \/ StampInvoke
    \/ StampRead \/ StampLoadKey \/ StampSign \/ StampOpen
    \/ StampWriteHeader \/ StampWritePayload \/ StampRename \/ StampInterrupt
    \/ CheckStamp

---------------------------------------------------------------------------
(* tool/key/generate_key.sh: the script *)

InitKey ==
    /\ kpc = "genkey"
    /\ kfs = <<>>


\* line 1: openssl ecparam -name secp256k1 -genkey -noout -out <private pem>
GenKey ==
    /\ kpc = "genkey"
    /\ \E d \in Scalars : kfs' = Put(kfs, PrivPem, PemEncode(d))
    /\ kpc' = "pubout"
    /\ KeyFrame

\* line 2: openssl ec -in <private pem> -pubout -outform DER -out <public der>
PubOut ==
    /\ kpc = "pubout"
    /\ kfs' = IF Exists(kfs, PrivPem) /\ ParsableKey(kfs[PrivPem])
              THEN Put(kfs, PubDer, DerPublicKey(ParseKey(kfs[PrivPem])))
              ELSE kfs
    /\ kpc' = "dd"
    /\ KeyFrame

\* line 3
DdRaw ==
    /\ kpc = "dd"
    /\ kfs' = IF Exists(kfs, PubDer)
              THEN Put(kfs, PubRaw, RawFromDer(kfs[PubDer]))
              ELSE kfs
    /\ kpc' = "done"
    /\ KeyFrame

NextKey == GenKey \/ PubOut \/ DdRaw

---------------------------------------------------------------------------
(* Bit operations on the low CsrBits bits of a register *)

Bit(x, i) == (x \div Pow2(i)) % 2

RECURSIVE BitOrN(_, _, _)
BitOrN(a, b, n) ==
    IF n = 0 THEN 0
    ELSE (IF a % 2 = 1 \/ b % 2 = 1 THEN 1 ELSE 0) + 2 * BitOrN(a \div 2, b \div 2, n - 1)
BitOr(a, b) == BitOrN(a, b, CsrBits)

RECURSIVE BitAndN(_, _, _)
BitAndN(a, b, n) ==
    IF n = 0 THEN 0
    ELSE (IF a % 2 = 1 /\ b % 2 = 1 THEN 1 ELSE 0) + 2 * BitAndN(a \div 2, b \div 2, n - 1)
BitAnd(a, b) == BitAndN(a, b, CsrBits)

\* ~m on the bits kept
BitNot(m) == (Pow2(CsrBits) - 1) - m

CsrValues == 0 .. (Pow2(CsrBits) - 1)

---------------------------------------------------------------------------
(* platform/generic/andes/ax65.c *)

\* MCACHE_CTL.CCTL_SUEN (andes/andes.h)
MCACHE_CTL_CCTL_SUEN_OFFSET == 8
MCACHE_CTL_CCTL_SUEN_MASK == Pow2(MCACHE_CTL_CCTL_SUEN_OFFSET)

\* results generic_final_init may return: 0, SBI_EFAIL, SBI_ENODEV
GenericResults == {0, -1, -6}

AxLogIdle ==
    [called |-> FALSE, hooked |-> FALSE, cold_boot |-> FALSE, generic_arg |-> FALSE,
     generic_ret |-> 0, ret |-> 0, before |-> 0, coldDone |-> FALSE]

\* generic_final_init (platform/generic/platform.c): leaves MCACHE_CTL alone
generic_final_init(cold_boot, csr, g) ==
    [csr |-> csr, ret |-> g, generic_arg |-> cold_boot]

\* variant: mcache_ctl = MASK instead of mcache_ctl |= MASK
ax65_final_init_Assign(cold_boot, csr, g) ==
    LET mcache == IF cold_boot THEN MCACHE_CTL_CCTL_SUEN_MASK ELSE csr
    IN generic_final_init(cold_boot, mcache, g)

\* lines 13-23; g is what generic_final_init returns for this call
ax65_final_init(cold_boot, csr, g) ==
    LET mcache == IF cold_boot THEN BitOr(csr, MCACHE_CTL_CCTL_SUEN_MASK) ELSE csr
    IN generic_final_init(cold_boot, mcache, g)

InitAx65 ==
    /\ final_init = "generic_final_init"
    /\ mcache_ctl \in CsrValues
    /\ axlog = AxLogIdle


\* lines 25-31
ax65_platform_init ==
    /\ final_init' = "ax65_final_init"
    /\ UNCHANGED <<mcache_ctl, axlog>>
    /\ AxFrame

\* the platform's final_init call, through generic_platform_ops.final_init
FinalInit ==
    /\ \E cold_boot \in BOOLEAN, g \in GenericResults :
          LET hooked == final_init = "ax65_final_init"
              r == IF hooked THEN ax65_final_init(cold_boot, mcache_ctl, g)
                   ELSE generic_final_init(cold_boot, mcache_ctl, g)
          IN /\ mcache_ctl' = r.csr
             /\ axlog' = [called |-> TRUE, hooked |-> hooked, cold_boot |-> cold_boot,
                          generic_arg |-> r.generic_arg, generic_ret |-> g, ret |-> r.ret,
                          before |-> mcache_ctl,
                          coldDone |-> axlog.coldDone \/ (hooked /\ cold_boot)]
             /\ UNCHANGED final_init
    /\ AxFrame

NextAx65 == ax65_platform_init \/ FinalInit

---------------------------------------------------------------------------
(* after_opensbi.c: the stub, one action per instruction group.  It is     *)
(* entered in S-mode by the firmware's jump to the next stage.             *)

\* sstatus.SPP, sstatus.SPIE, sstatus.SIE
SSTATUS_SPP == 256
SSTATUS_SPIE == 32
SSTATUS_SIE == 2

\* SBI debug console extension "DBCN", function 0 (console write)
SBI_EXT_DBCN == 1145258830
\* sizeof(hello_str) - 1
HelloLen == 28
\* address of hello_str
HelloAddr == 4096
UartAddr == 100663544
ResetAddr == 104858624

\* instruction addresses of the stub, in units of one instruction group
PcEntry == 0
PcArgs == 1
PcEcall == 2
PcCsrr == 3
PcAndi == 4
PcCsrw == 5
PcLa == 6
PcSepc == 7
PcSret == 8
user_code == 9
PcReset == 10
PcSpin == 11

RegsIdle == [a0 |-> 0, a1 |-> 0, a2 |-> 0, a6 |-> 0, a7 |-> 0,
             t0 |-> 0, t1 |-> 0, t2 |-> 0, t3 |-> 0]

Event(ev, m, a, b) == [ev |-> ev, mode |-> m, a |-> a, b |-> b]

InitStub ==
    /\ spc = PcEntry
    /\ mode = "S"
    /\ sstatus \in CsrValues
    /\ sepc = 0
    /\ regs = RegsIdle
    /\ trace = <<Event("entry", "S", sstatus, 0)>>


\* variant: andi t0, t0, 0x100
ClearSPP_WrongMask(x) == BitAnd(x, SSTATUS_SPP)

\* line 17: andi t0, t0, ~0x100
ClearSPP(x) == BitAnd(x, BitNot(SSTATUS_SPP))

\* line 7: csrwi ucctlcommand, 6; legal in S-mode because MCACHE_CTL.CCTL_SUEN is set
CctlCommand ==
    /\ spc = PcEntry
    /\ Bit(mcache_ctl, MCACHE_CTL_CCTL_SUEN_OFFSET) = 1
    /\ spc' = PcArgs
    /\ UNCHANGED <<mode, sstatus, sepc, regs, trace>>
    /\ StubFrame

\* lines 8-12
LoadEcallArgs ==
    /\ spc = PcArgs
    /\ regs' = [regs EXCEPT !.a7 = SBI_EXT_DBCN, !.a6 = 0, !.a0 = HelloLen,
                            !.a1 = HelloAddr, !.a2 = 0]
    /\ spc' = PcEcall
    /\ UNCHANGED <<mode, sstatus, sepc, trace>>
    /\ StubFrame

\* line 13: the trap to the firmware and its return to the next instruction, in the
\* mode the call came from; a0/a1 carry the SBI error and value back
Ecall ==
    /\ spc = PcEcall
    /\ trace' = Append(trace, Event("ecall", mode, regs.a7, regs.a0))
    /\ \E err \in {0, -3} :
          regs' = [regs EXCEPT !.a0 = err, !.a1 = IF err = 0 THEN HelloLen ELSE 0]
    /\ spc' = PcCsrr
    /\ UNCHANGED <<mode, sstatus, sepc>>
    /\ StubFrame

\* line 16
ReadSstatus ==
    /\ spc = PcCsrr
    /\ regs' = [regs EXCEPT !.t0 = sstatus]
    /\ spc' = PcAndi
    /\ UNCHANGED <<mode, sstatus, sepc, trace>>
    /\ StubFrame

\* line 17
AndiSPP ==
    /\ spc = PcAndi
    /\ regs' = [regs EXCEPT !.t0 = ClearSPP(regs.t0)]
    /\ spc' = PcCsrw
    /\ UNCHANGED <<mode, sstatus, sepc, trace>>
    /\ StubFrame

\* line 18
WriteSstatus ==
    /\ spc = PcCsrw
    /\ sstatus' = regs.t0
    /\ spc' = PcLa
    /\ UNCHANGED <<mode, sepc, regs, trace>>
    /\ StubFrame

\* line 19
LoadUserCode ==
    /\ spc = PcLa
    /\ regs' = [regs EXCEPT !.t0 = user_code]
    /\ spc' = PcSepc
    /\ UNCHANGED <<mode, sstatus, sepc, trace>>
    /\ StubFrame

\* line 20
WriteSepc ==
    /\ spc = PcSepc
    /\ sepc' = regs.t0
    /\ spc' = PcSret
    /\ UNCHANGED <<mode, sstatus, regs, trace>>
    /\ StubFrame

\* line 21: sret: the mode becomes sstatus.SPP, SIE takes SPIE, SPIE is set, SPP
\* is cleared, and execution continues at sepc
Sret ==
    /\ spc = PcSret
    /\ trace' = Append(trace, Event("sret", mode, sstatus, sepc))
    /\ mode' = IF Bit(sstatus, 8) = 1 THEN "S" ELSE "U"
    /\ sstatus' = LET spie == Bit(sstatus, 5)
                      cleared == BitAnd(sstatus, BitNot(SSTATUS_SPP + SSTATUS_SIE))
                  IN BitOr(cleared, SSTATUS_SPIE + spie * SSTATUS_SIE)
    /\ spc' = sepc
    /\ UNCHANGED <<sepc, regs>>
    /\ StubFrame

\* lines 24-25
UartLoad ==
    /\ spc = user_code
    /\ \E v \in {0, 96} : regs' = [regs EXCEPT !.t0 = UartAddr, !.t1 = v]
    /\ trace' = Append(trace, Event("load", mode, UartAddr, 0))
    /\ spc' = PcReset
    /\ UNCHANGED <<mode, sstatus, sepc>>
    /\ StubFrame

\* lines 28-30
ResetStore ==
    /\ spc = PcReset
    /\ regs' = [regs EXCEPT !.t2 = ResetAddr, !.t3 = 0]
    /\ trace' = Append(trace, Event("store", mode, ResetAddr, regs'.t3))
    /\ spc' = PcSpin
    /\ UNCHANGED <<mode, sstatus, sepc>>
    /\ StubFrame

\* line 32: 1: j 1b
Spin ==
    /\ spc = PcSpin
    /\ spc' = PcSpin
    /\ UNCHANGED <<mode, sstatus, sepc, regs, trace>>
    /\ StubFrame

NextStub ==
    \/ CctlCommand \/ LoadEcallArgs \/ Ecall \/ ReadSstatus \/ AndiSPP \/ WriteSstatus
    \/ LoadUserCode \/ WriteSepc \/ Sret \/ UartLoad \/ ResetStore \/ Spin

---------------------------------------------------------------------------
(* Specifications: one per program; the variables of the other programs    *)
(* start at rest (MCACHE_CTL as the cold boot left it: CCTL_SUEN set).      *)

InitBuildSpec ==
    /\ InitBuild
    /\ kpc = "genkey" /\ kfs = <<>>
    /\ final_init = "generic_final_init" /\ mcache_ctl = MCACHE_CTL_CCTL_SUEN_MASK
    /\ axlog = AxLogIdle
    /\ spc = PcEntry /\ mode = "S" /\ sstatus = 0 /\ sepc = 0 /\ regs = RegsIdle
    /\ trace = <<>>

InitKeySpec ==
    /\ InitKey
    /\ pc = "make" /\ status = 0 /\ GIT_SHA = <<>> /\ stdout = <<>> /\ exitCode = -1
    /\ fs = <<>> /\ outWritable = TRUE /\ steps = <<>> /\ stamp = StampIdle
    /\ fsAtStamp = <<>>
    /\ final_init = "generic_final_init" /\ mcache_ctl = MCACHE_CTL_CCTL_SUEN_MASK
    /\ axlog = AxLogIdle
    /\ spc = PcEntry /\ mode = "S" /\ sstatus = 0 /\ sepc = 0 /\ regs = RegsIdle
    /\ trace = <<>>

InitAx65Spec ==
    /\ InitAx65
    /\ pc = "make" /\ status = 0 /\ GIT_SHA = <<>> /\ stdout = <<>> /\ exitCode = -1
    /\ fs = <<>> /\ outWritable = TRUE /\ steps = <<>> /\ stamp = StampIdle
    /\ fsAtStamp = <<>>
    /\ kpc = "genkey" /\ kfs = <<>>
    /\ spc = PcEntry /\ mode = "S" /\ sstatus = 0 /\ sepc = 0 /\ regs = RegsIdle
    /\ trace = <<>>

InitStubSpec ==
    /\ InitStub
    /\ pc = "make" /\ status = 0 /\ GIT_SHA = <<>> /\ stdout = <<>> /\ exitCode = -1
    /\ fs = <<>> /\ outWritable = TRUE /\ steps = <<>> /\ stamp = StampIdle
    /\ fsAtStamp = <<>>
    /\ kpc = "genkey" /\ kfs = <<>>
    /\ final_init = "ax65_final_init" /\ mcache_ctl = MCACHE_CTL_CCTL_SUEN_MASK
    /\ axlog = AxLogIdle

SpecBuild == InitBuildSpec /\ [][NextBuild]_vars

SpecKey == InitKeySpec /\ [][NextKey]_vars

SpecAx65 == InitAx65Spec /\ [][NextAx65]_vars

\* the hart keeps executing instructions
SpecStub == InitStubSpec /\ [][NextStub]_vars /\ WF_vars(NextStub)

---------------------------------------------------------------------------
(* Properties *)

StampSucceeded == stamp.pc = "done" /\ stamp.err = ""
StampFailed == stamp.pc = "done" /\ stamp.err # ""

\* C1: when the stamper succeeds, the file at the output path is the header
\* followed by the input binary: its length is HeaderLen + N with HeaderLen the
\* same for every N, and bytes [HeaderLen, HeaderLen + N) are the input binary.
C1_OutputIsHeaderThenBinary ==
    StampSucceeded =>
       /\ Exists(fsAtStamp, BinPath)
       /\ Exists(fs, ImgPath)
       /\ LET img == fs[ImgPath]
              bin == fsAtStamp[BinPath]
          IN /\ Len(bin) > 0
             /\ Len(img) = HeaderLen + Len(bin)
             /\ Len(stamp.header) = HeaderLen
             /\ SubSeq(img, 1, HeaderLen) = stamp.header
             /\ \A i \in 1 .. Len(bin) : img[HeaderLen + i] = bin[i]

C1_Witness ==
    /\ StampSucceeded
    /\ pc = "exited"
    /\ Exists(fsAtStamp, BinPath)
    /\ Len(fsAtStamp[BinPath]) >= 2
    /\ Len(fs[ImgPath]) = HeaderLen + Len(fsAtStamp[BinPath])

\* the output path as the stamper found it
OutputUntouched ==
    /\ Exists(fs, ImgPath) = Exists(fsAtStamp, ImgPath)
    /\ Exists(fs, ImgPath) => fs[ImgPath] = fsAtStamp[ImgPath]

\* the output path holds the whole image
OutputComplete ==
    /\ Exists(fs, ImgPath)
    /\ Exists(fsAtStamp, BinPath)
    /\ Len(stamp.header) = HeaderLen
    /\ fs[ImgPath] = stamp.header \o fsAtStamp[BinPath]

\* C2: in every state the output path holds no new file or the complete image,
\* and after a failure of the stamper (InputNotFound, KeyLoadError, IOError,
\* interruption) it holds no new file.
C2_NoPartialOutput ==
    /\ OutputUntouched \/ OutputComplete
    /\ StampFailed => OutputUntouched

C2_Witness ==
    /\ StampFailed
    /\ stamp.err = "Interrupted"
    /\ Exists(fs, TmpPath(ImgPath))
    /\ Len(fs[TmpPath(ImgPath)]) = HeaderLen

\* C3: the stamper exits 0 exactly when it succeeded; after a non-zero exit
\* build.sh prints the failure message and exits non-zero, and it prints the
\* success message only when the stamper exited 0.
C3_ExitPropagated ==
    /\ stamp.pc = "done" => (status = 0 <=> stamp.err = "")
    /\ (pc = "exited" /\ stamp.pc = "done" /\ status # 0) =>
          /\ exitCode # 0
          /\ Echoed("Failed to generate fw_jump.img")
          /\ ~Echoed("Build completed successfully!")
    /\ Echoed("Build completed successfully!") =>
          /\ StampSucceeded
          /\ status = 0
          /\ exitCode = 0

C3_Witness ==
    /\ pc = "exited"
    /\ stamp.err = "KeyLoadError"
    /\ exitCode = 1
    /\ Echoed("Failed to generate fw_jump.img")

StepNames == <<"build", "gitsha", "stamp">>

\* C4: the steps run in the order build, build identifier, stamp, each at most
\* once; after a failed build the script only exits, non-zero, and neither the
\* identifier is computed nor the stamper invoked.
C4_StepOrder ==
    /\ Len(steps) <= 3
    /\ \A i \in 1 .. Len(steps) : steps[i].name = StepNames[i]
    /\ (Len(steps) >= 1 /\ steps[1].rc # 0) =>
          /\ Len(steps) = 1
          /\ GIT_SHA = <<>>
          /\ stamp.pc = "idle"
          /\ pc \in {"check_make", "exited"}
          /\ pc = "exited" => exitCode # 0

C4_Witness ==
    /\ pc = "exited"
    /\ Len(steps) = 1
    /\ steps[1].rc # 0
    /\ Echoed("Build failed!")
    /\ exitCode = 1

SameFile(p) ==
    /\ Exists(fs, p) = Exists(fsAtStamp, p)
    /\ Exists(fs, p) => fs[p] = fsAtStamp[p]

\* C5: the stamper leaves the input binary and the key file as they were; when
\* it succeeds, the output image is the one path that differs from before, it
\* is another path than the binary's, and its header stays the header built.
C5_OnlyOutputWritten ==
    stamp.pc # "idle" =>
       /\ SameFile(BinPath)
       /\ SameFile(KeyPath)
       /\ StampSucceeded =>
             /\ stamp.output \notin {BinPath, KeyPath}
             /\ DOMAIN fs = (DOMAIN fsAtStamp) \cup {stamp.output}
             /\ \A p \in (DOMAIN fs) \ {stamp.output} : fs[p] = fsAtStamp[p]
             /\ SubSeq(fs[stamp.output], 1, HeaderLen) = stamp.header

C5_Witness ==
    /\ StampSucceeded
    /\ pc = "exited"
    /\ ~Exists(fsAtStamp, ImgPath)
    /\ Exists(fs, ImgPath)
    /\ fs[BinPath] = fsAtStamp[BinPath]

\* the signature field of an image, and what it must cover
ImageSignature(img) == SubSeq(img, EntryWidth + IdWidth + 1, HeaderLen)
ImageSigned(img) == SubSeq(img, 1, EntryWidth + IdWidth) \o SubSeq(img, HeaderLen + 1, Len(img))

\* C6: the signature in the header of every image the stamper produces verifies,
\* against the raw public key generate_key.sh derived from the private key, over
\* the other header fields followed by the payload, whatever nonce was drawn.
C6_SignatureVerifies ==
    StampSucceeded =>
       /\ Exists(fs, ImgPath)
       /\ Exists(fs, PubRawPath)
       /\ Verify(fs[PubRawPath], ImageSigned(fs[ImgPath]), ImageSignature(fs[ImgPath]))
       /\ SubSeq(fs[ImgPath], 1, EntryWidth + IdWidth)
             = HeaderFields(ParseEntrypoint(stamp.entrypoint), GIT_SHA)

C6_Witness ==
    /\ StampSucceeded
    /\ stamp.priv = 11
    /\ SubSeq(ImageSignature(fs[ImgPath]), 1, CoordWidth) = BigEndian(SigR(5), CoordWidth)
    /\ Len(GIT_SHA) > IdWidth

\* C7: the raw public key is the 64 bytes of the DER file after its first 24,
\* which are the two 32-byte coordinates, and the DER file ends there.
C7_RawKeyIs64Bytes ==
    kpc = "done" =>
       /\ Exists(kfs, PubDer)
       /\ Exists(kfs, PubRaw)
       /\ LET der == kfs[PubDer]
              raw == kfs[PubRaw]
              Q == PublicPoint(ParseKey(kfs[PrivPem]))
          IN /\ Len(raw) = 64
             /\ \A i \in 1 .. 64 : raw[i] = der[24 + i]
             /\ Len(der) = 24 + 64
             /\ SubSeq(raw, 1, 32) = BigEndian(Q, 32)
             /\ SubSeq(raw, 33, 64) = BigEndian(CurveY(Q), 32)

C7_Witness ==
    /\ kpc = "done"
    /\ Exists(kfs, PubRaw)
    /\ ParseKey(kfs[PrivPem]) = 250
    /\ Len(kfs[PubRaw]) = 64

\* C8: a final_init call through the installed hook returns what
\* generic_final_init(cold_boot) returned; on cold boot CCTL_SUEN is set and the
\* other bits of MCACHE_CTL keep their values, otherwise MCACHE_CTL is unchanged;
\* after a cold-boot call CCTL_SUEN stays set over every later call.
C8_FinalInitOverride ==
    /\ (axlog.called /\ axlog.hooked) =>
          /\ axlog.ret = axlog.generic_ret
          /\ axlog.generic_arg = axlog.cold_boot
          /\ axlog.cold_boot =>
                /\ Bit(mcache_ctl, MCACHE_CTL_CCTL_SUEN_OFFSET) = 1
                /\ \A i \in (0 .. (CsrBits - 1)) \ {MCACHE_CTL_CCTL_SUEN_OFFSET} :
                      Bit(mcache_ctl, i) = Bit(axlog.before, i)
          /\ ~axlog.cold_boot => mcache_ctl = axlog.before
    /\ axlog.coldDone => Bit(mcache_ctl, MCACHE_CTL_CCTL_SUEN_OFFSET) = 1

C8_Witness ==
    /\ axlog.called /\ axlog.hooked /\ axlog.cold_boot
    /\ Bit(axlog.before, MCACHE_CTL_CCTL_SUEN_OFFSET) = 0
    /\ Bit(axlog.before, 0) = 1
    /\ Bit(mcache_ctl, 0) = 1
    /\ axlog.ret = -1

EventAt(ev) == CHOOSE i \in 1 .. Len(trace) : trace[i].ev = ev
Happened(ev) == \E i \in 1 .. Len(trace) : trace[i].ev = ev
EventNames == [i \in 1 .. Len(trace) |-> trace[i].ev]

StubSafety ==
    \* the ecall is made in S-mode, for the console write, before the sret
    /\ \A i \in 1 .. Len(trace) :
          trace[i].ev = "ecall" =>
             /\ trace[i].mode = "S"
             /\ trace[i].a = SBI_EXT_DBCN
             /\ ~\E j \in 1 .. i : trace[j].ev = "sret"
    /\ Happened("sret") =>
          LET e == trace[EventAt("sret")]
          IN /\ Happened("ecall") /\ EventAt("ecall") < EventAt("sret")
             \* sret runs with SPP clear, the other sstatus bits as on entry, sepc = user_code
             /\ e.mode = "S"
             /\ Bit(e.a, 8) = 0
             /\ \A b \in (0 .. (CsrBits - 1)) \ {8} : Bit(e.a, b) = Bit(trace[1].a, b)
             /\ e.b = user_code
             \* and from then on the stub runs its user part in U-mode
             /\ mode = "U"
             /\ spc \in {user_code, PcReset, PcSpin}
    /\ ~Happened("sret") => mode = "S" /\ spc \in PcEntry .. PcSret
    \* the load, then the store of 0 to the reset register, then the loop
    /\ spc = PcSpin =>
          /\ EventNames = <<"entry", "ecall", "sret", "load", "store">>
          /\ trace[4].a = UartAddr /\ trace[4].mode = "U"
          /\ trace[5].a = ResetAddr /\ trace[5].b = 0 /\ trace[5].mode = "U"

C10_GitShaNeverEmpty ==
    /\ stamp.pc # "idle" =>
          /\ Len(steps) = 3
          /\ stamp.git_sha # <<>>
          /\ steps[2].rc = 0 => stamp.git_sha = steps[2].out /\ steps[2].out \in ShortShas
          /\ steps[2].rc # 0 => stamp.git_sha = Unknown
    /\ (Len(steps) >= 2 /\ steps[2].rc # 0 /\ pc = "exited") => Len(steps) = 3

C10_Witness ==
    /\ stamp.pc # "idle"
    /\ steps[2].rc = 128
    /\ stamp.git_sha = Unknown

=============================================================================
